---- MODULE Spec2Model ----
(***************************************************************************)
(* OrgQ (src/OrgQ_HN.py): nuclei counting and marker colocalization for    *)
(* split-channel organoid images.  The model follows the script: the       *)
(* configuration loop (getChannels per subfolder), the batch loop that     *)
(* truncates the batch's CSV and calls process() per ch00 image, and       *)
(* process() itself: calibration, segmentation result, the aggregation     *)
(* loop over the candidate particles and the CSV append.                   *)
(*                                                                         *)
(* Everything ImageJ measures is an input: the list of particle areas and  *)
(* the per-channel area fractions of an image, the xml metadata of a       *)
(* subfolder, and the operator's answers to the getChannels dialog.        *)
(* Numbers: areas are whole square microns; area fractions and their       *)
(* thresholds are in tenths of a percent (the default 0.1 is 1); the pixel *)
(* length is fixed-point with six decimals (0.877017 is 877017); the       *)
(* size-average is in hundredths.  The measurement columns (intensity,     *)
(* blobsarea, blobsnuclei, organoid-area) carry ImageJ measurements        *)
(* straight into the row and are left out of summary and fieldnames.       *)
(***************************************************************************)
EXTENDS Integers, Sequences, FiniteSets, TLC

\* ------------------------------------------------------------------ bounds
MaxDirs == 2          \* subfolders of the input directory
MaxFiles == 2         \* ch00 images in a subfolder
MaxSized == 3         \* particles of an image in the size family
MaxCand == 2          \* particles of an image in the colocalization family

\* ------------------------------------------------------- program constants
tooSmallThreshold == 50
tooBigThreshold == 500
DefaultAreaFraction == 1        \* 0.1, every entry of areaFractionThreshold
DefaultPixelLength == 877017    \* 0.877017
MetersToMicrons == 1000000

\* --------------------------------------------------------- python values
\* A Python value that may be None: <<>> is None, <<v>> is the value v.
None == <<>>
Some(v) == <<v>>
IsNone(o) == o = <<>>
Val(o) == o[1]

Blank == -1                     \* an empty CSV cell

\* The default marker names the dialog proposes for ch00..ch03.
DefaultNames == <<"Dapi", "pSYN", "MAP2", "SYN">>

\* The dialog's four name fields when the channels in `empty` are left empty.
NamingWithout(empty) ==
    [i \in 1..4 |-> IF (i - 1) \in empty THEN "" ELSE DefaultNames[i]]

VARIABLES
    directories,            \* input: <<subfolder>>, each [xml, files]
    dialog,                 \* input: the operator's answers, one per subfolder
    areaFractionThreshold,  \* [0..4 -> threshold], line 468
    pc,                     \* where the script is
    error,                  \* the exception that ended the script, "" if none
    allChannels,
    allOutputNames,
    inde,                   \* index of the subfolder of the batch loop (1-based)
    fileIdx,                \* index of the image of the file loop (1-based)
    channels,
    outputName,
    pixel_length,
    areas,
    areaFractionsArray,
    z,                      \* index of the candidate of the aggregation loop (1-based)
    areaCounter,
    summary,
    fieldnames,
    csv                     \* [output name -> lines of that CSV file]

vars == <<directories, dialog, areaFractionThreshold, pc, error, allChannels,
          allOutputNames, inde, fileIdx, channels, outputName, pixel_length,
          areas, areaFractionsArray, z, areaCounter, summary, fieldnames, csv>>

inputs == <<directories, dialog, areaFractionThreshold>>
locals == <<pixel_length, areas, areaFractionsArray, z, areaCounter, summary, fieldnames>>

\* ------------------------------------------------------------ getChannels
\* channels as getChannels builds it: the [name, index] pairs of the
\* channels whose name is not empty, in channel order.
RECURSIVE NamedChannels(_, _)
NamedChannels(names, i) ==
    IF i > Len(names) THEN <<>>
    ELSE (IF names[i] # "" THEN << <<names[i], i - 1>> >> ELSE <<>>)
         \o NamedChannels(names, i + 1)

\* getChannels(subFolder): None when the dialog was canceled, else the
\* pair (channels, outputName).
getChannels(answer) ==
    IF answer.canceled THEN None
    ELSE Some([channels |-> NamedChannels(answer.names, 1),
               outputName |-> answer.outputName])

\* ------------------------------------------------------------ calibration
Ok(v) == [err |-> "", val |-> v]
Raise(e) == [err |-> e, val |-> 0]

\* The body of `for dimensions in root.iter('DimensionDescription')`:
\* num_pixels and length are unbound (None) until an element assigns them.
RECURSIVE IterDimensions(_, _, _)
IterDimensions(dims, num_pixels, length) ==
    IF dims = <<>> THEN Ok([num_pixels |-> num_pixels, length |-> length])
    ELSE LET d == Head(dims) IN
         IF ~d.NumberOfElements.present THEN Raise("KeyError")
         ELSE IF ~d.NumberOfElements.numeric THEN Raise("ValueError")
         ELSE IF ~d.Unit.present THEN Raise("KeyError")
         ELSE IF ~d.Length.present THEN Raise("KeyError")
         ELSE IF ~d.Length.numeric THEN Raise("ValueError")
         ELSE IterDimensions(Tail(dims),
                  Some(d.NumberOfElements.value),
                  Some(IF d.Unit.text = "m"
                       THEN d.Length.value * MetersToMicrons
                       ELSE d.Length.value))

\* Lines 113-127: the pixel length from the subfolder's xml file, or the
\* exception the lines raise.
PixelLength(xml) ==
    IF IsNone(xml) THEN Ok(DefaultPixelLength)
    ELSE IF ~Val(xml).parses THEN Raise("ParseError")
    ELSE LET r == IterDimensions(Val(xml).dims, None, None) IN
         IF r.err # "" THEN r
         ELSE IF IsNone(r.val.length) THEN Raise("UnboundLocalError: length")
         ELSE IF Val(r.val.num_pixels) = 0 THEN Raise("ZeroDivisionError")
         ELSE Ok(Val(r.val.length) \div Val(r.val.num_pixels))

\* ---------------------------------------------------------------- summary
KeyPositive(v) == <<v, "positive">>
KeyPair(v, w) == <<v, w, "positive">>
KeyTriple(u, v, w) == <<u, v, w, "positive">>

RECURSIVE PositiveKeys(_, _)
PositiveKeys(chans, i) ==
    IF i > Len(chans) THEN <<>>
    ELSE <<KeyPositive(chans[i][1])>> \o PositiveKeys(chans, i + 1)

\* Lines 357-372: the colocalization columns, by the order of the
\* configured channels.
ColocKeys(chans) ==
    (IF Len(chans) > 2 THEN <<KeyPair(chans[2][1], chans[3][1])>> ELSE <<>>)
    \o (IF Len(chans) > 3
        THEN <<KeyPair(chans[2][1], chans[4][1]),
               KeyPair(chans[3][1], chans[4][1]),
               KeyTriple(chans[2][1], chans[3][1], chans[4][1])>>
        ELSE <<>>)

\* Lines 335-372: the CSV columns.
Fieldnames(chans) ==
    << <<"Name">>, <<"Directory">>, <<"Image">>, <<"size-average">>,
       <<"too-big">>, <<"too-small">>, <<"#nuclei">>, <<"all-negative">> >>
    \o PositiveKeys(chans, 1) \o ColocKeys(chans)

SeqRange(s) == {s[i] : i \in 1..Len(s)}

\* Lines 319-372: the summary dictionary before the aggregation loop.
InitialSummary(chans, subFolder, filename) ==
    [k \in (SeqRange(Fieldnames(chans)) \ {<<"Name">>}) |->
        IF k = <<"Image">> THEN filename
        ELSE IF k = <<"Directory">> THEN subFolder
        ELSE 0]

Bump(s, k) == [s EXCEPT ![k] = @ + 1]

\* Truncation to two decimals instead of rounding.
Round2_Truncate(num, den) == (100 * num) \div den

\* round(x, 2) of num/den >= 0, in hundredths (half away from zero).
Round2(num, den) == (200 * num + den) \div (2 * den)

\* ------------------------------------------------------- aggregation loop
\* Inclusive comparisons: an area equal to a threshold leaves the valid class.
SizeClass_Inclusive(area) ==
    IF area >= tooBigThreshold THEN "too-big"
    ELSE IF area <= tooSmallThreshold THEN "too-small"
    ELSE "valid"

\* Lines 382-386: the branch the area selects.
SizeClass(area) ==
    IF area > tooBigThreshold THEN "too-big"
    ELSE IF area < tooSmallThreshold THEN "too-small"
    ELSE "valid"

\* Lines 392-398: `for chan in channels` of candidate zz, from channel i on;
\* s is the summary and temp the count of positive non-reference channels.
RECURSIVE PositivityLoop(_, _, _, _, _, _, _)
PositivityLoop(s, temp, chans, i, afa, zz, thr) ==
    IF i > Len(chans) THEN [summary |-> s, temp |-> temp]
    ELSE LET v == chans[i][1]
             x == chans[i][2]
         IN  IF Val(afa[x])[zz] > thr[0]
             THEN PositivityLoop(Bump(s, KeyPositive(v)),
                                 IF x # 0 THEN temp + 1 ELSE temp,
                                 chans, i + 1, afa, zz, thr)
             ELSE PositivityLoop(s, temp, chans, i + 1, afa, zz, thr)

\* areaFractionsArray[x][z] > areaFractionThreshold[x] of lines 404-415;
\* subscripting None raises TypeError.
Subscriptable(afa, x) == ~IsNone(afa[x])
Above(afa, x, zz, thr) == Val(afa[x])[zz] > thr[x]

\* Lines 403-406: colocalization of the first and second marker.
ColocalizePair(s, chans, afa, zz, thr) ==
    IF Len(chans) > 2 THEN
        IF ~Subscriptable(afa, 1) THEN Raise("TypeError: unsubscriptable")
        ELSE IF Above(afa, 1, zz, thr) THEN
            IF ~Subscriptable(afa, 2) THEN Raise("TypeError: unsubscriptable")
            ELSE IF Above(afa, 2, zz, thr)
                 THEN Ok(Bump(s, KeyPair(chans[2][1], chans[3][1])))
                 ELSE Ok(s)
        ELSE Ok(s)
    ELSE Ok(s)

\* A mis-ordered gate: the triple counter behind marker1 and marker3 only.
ColocalizeThree_UngatedTriple(s, chans, afa, zz, thr) ==
    IF Len(chans) > 3 THEN
        LET s13 == IF Above(afa, 1, zz, thr) /\ Above(afa, 3, zz, thr)
                   THEN Bump(s, KeyPair(chans[2][1], chans[4][1])) ELSE s
            s23 == IF Above(afa, 2, zz, thr) /\ Above(afa, 3, zz, thr)
                   THEN Bump(s13, KeyPair(chans[3][1], chans[4][1])) ELSE s13
        IN  Ok(IF Above(afa, 1, zz, thr) /\ Above(afa, 3, zz, thr)
               THEN Bump(s23, KeyTriple(chans[2][1], chans[3][1], chans[4][1]))
               ELSE s23)
    ELSE Ok(s)

\* Lines 408-416: the colocalizations with the third marker.  With more
\* than three channels all of ch00..ch03 are configured, yet the subscripts
\* are checked as the code evaluates them.
ColocalizeThree(s, chans, afa, zz, thr) ==
    IF Len(chans) > 3 THEN
        IF ~Subscriptable(afa, 1) THEN Raise("TypeError: unsubscriptable")
        ELSE IF Above(afa, 1, zz, thr) /\ ~Subscriptable(afa, 3) THEN Raise("TypeError: unsubscriptable")
        ELSE
        LET s13 == IF Above(afa, 1, zz, thr) /\ Above(afa, 3, zz, thr)
                   THEN Bump(s, KeyPair(chans[2][1], chans[4][1])) ELSE s
        IN  IF ~Subscriptable(afa, 2) THEN Raise("TypeError: unsubscriptable")
            ELSE IF Above(afa, 2, zz, thr) THEN
                IF ~Subscriptable(afa, 3) THEN Raise("TypeError: unsubscriptable")
                ELSE IF Above(afa, 3, zz, thr) THEN
                    LET s23 == Bump(s13, KeyPair(chans[3][1], chans[4][1]))
                    IN  IF Above(afa, 1, zz, thr)
                        THEN Ok(Bump(s23, KeyTriple(chans[2][1], chans[3][1], chans[4][1])))
                        ELSE Ok(s23)
                ELSE Ok(s13)
            ELSE Ok(s13)
    ELSE Ok(s)

\* Lines 388-416: the else branch, taken by a candidate that is neither
\* too big nor too small.  val is [summary, areaCounter].
ValidCandidate(s, counter, area, chans, afa, zz, thr) ==
    LET s1 == Bump(s, <<"#nuclei">>)
        p == PositivityLoop(s1, 0, chans, 1, afa, zz, thr)
        s2 == IF p.temp = 0 THEN Bump(p.summary, <<"all-negative">>) ELSE p.summary
        r2 == ColocalizePair(s2, chans, afa, zz, thr)
        r3 == ColocalizeThree(r2.val, chans, afa, zz, thr)
    IN  IF r2.err # "" THEN r2
        ELSE IF r3.err # "" THEN r3
        ELSE Ok([summary |-> r3.val, areaCounter |-> counter + area])

\* The positivity loop moved out of the else branch: it runs for every
\* candidate, whatever its size.
AggregateOne_AllSizes(s, counter, area, chans, afa, zz, thr) ==
    IF SizeClass(area) = "too-big"
    THEN Ok([summary |-> PositivityLoop(Bump(s, <<"too-big">>), 0, chans, 1, afa, zz, thr).summary,
             areaCounter |-> counter])
    ELSE IF SizeClass(area) = "too-small"
    THEN Ok([summary |-> PositivityLoop(Bump(s, <<"too-small">>), 0, chans, 1, afa, zz, thr).summary,
             areaCounter |-> counter])
    ELSE ValidCandidate(s, counter, area, chans, afa, zz, thr)

\* Lines 377-416: one pass of `for z, area in enumerate(areas)`.
AggregateOne(s, counter, area, chans, afa, zz, thr) ==
    IF SizeClass(area) = "too-big"
    THEN Ok([summary |-> Bump(s, <<"too-big">>), areaCounter |-> counter])
    ELSE IF SizeClass(area) = "too-small"
    THEN Ok([summary |-> Bump(s, <<"too-small">>), areaCounter |-> counter])
    ELSE ValidCandidate(s, counter, area, chans, afa, zz, thr)

\* Lines 420-421: the size average, in hundredths.
SizeAverage(s, counter) ==
    IF s[<<"#nuclei">>] > 0
    THEN [s EXCEPT ![<<"size-average">>] = Round2(counter, s[<<"#nuclei">>])]
    ELSE s

\* ------------------------------------------------------------------- CSV
HeaderLine(fields) == [header |-> TRUE, fieldnames |-> fields, values |-> <<>>]

\* DictWriter.writerow: the summary's value of each column, an empty cell
\* for a column the summary lacks ('Name'), other keys ignored.
RowLine(s, fields) ==
    [header |-> FALSE, fieldnames |-> <<>>,
     values |-> [i \in 1..Len(fields) |->
                    IF fields[i] \in DOMAIN s THEN s[fields[i]] ELSE Blank]]

\* Lines 425-430: append to the batch's CSV, the header first when the file
\* is empty.
AppendRow(file, s, fields) ==
    (IF Len(file) < 1 THEN file \o <<HeaderLine(fields)>> ELSE file)
    \o <<RowLine(s, fields)>>

\* ---------------------------------------------------------------- inputs
OutputNames == {"out1", "out2"}

\* An xml attribute that int()/float() reads, one that is not a number,
\* and one that is missing.
Attr(v) == [present |-> TRUE, numeric |-> TRUE, value |-> v]
TextAttr == [present |-> TRUE, numeric |-> FALSE, value |-> 0]
MissingAttr == [present |-> FALSE, numeric |-> FALSE, value |-> 0]
UnitAttr(t) == [present |-> TRUE, text |-> t]
Dim(n, u, l) == [NumberOfElements |-> n, Unit |-> u, Length |-> l]
Xml(dims) == Some([parses |-> TRUE, dims |-> dims])

\* 1024 pixels over 898 microns, given in meters (0.000898 m).
DimMeters == Dim(Attr(1024), UnitAttr("m"), Attr(898))
DimMicrons == Dim(Attr(1024), UnitAttr("um"), Attr(898000000))

MetadataChoices ==
    { None,
      Some([parses |-> FALSE, dims |-> <<>>]),
      Xml(<<>>),
      Xml(<<DimMeters>>),
      Xml(<<DimMicrons>>),
      Xml(<<DimMeters, Dim(Attr(512), UnitAttr("um"), Attr(898000000))>>),
      Xml(<<Dim(TextAttr, UnitAttr("m"), Attr(898))>>),
      Xml(<<Dim(Attr(1024), UnitAttr("m"), MissingAttr)>>),
      Xml(<<Dim(Attr(0), UnitAttr("m"), Attr(898))>>) }

\* An image: the areas column of the particle analysis (None when no
\* particle was found: ResultsTable.getColumn returns null) and the area
\* fractions of the particles in each channel image.
Image(a, f) == [areas |-> a, fractions |-> f]
Degenerate == Image(None, [x \in 0..3 |-> <<>>])
PlainImage == Image(Some(<<200>>), [x \in 0..3 |-> <<2>>])

SeqsUpTo(S, lo, hi) == UNION {[1..n -> S] : n \in lo..hi}

AreaValues == {20, 50, 200, 201, 500, 700}
SizedImages ==
    {Image(Some(a), [x \in 0..3 |-> [i \in 1..Len(a) |-> 2]]) :
        a \in SeqsUpTo(AreaValues, 1, MaxSized)}

ColocAreas == {20, 200, 700}
FracValues == {0, 2}
ColocImages ==
    UNION {{Image(Some(a), [x \in 0..3 |-> IF x = 0 THEN [i \in 1..n |-> 2] ELSE f[x]]) :
                a \in [1..n -> ColocAreas], f \in [1..3 -> [1..n -> FracValues]]} :
           n \in 1..MaxCand}

Answer(names, out, canceled) ==
    [names |-> names, outputName |-> out, canceled |-> canceled]

Thresholds(t0, t1) ==
    [i \in 0..4 |-> IF i = 0 THEN t0 ELSE IF i = 1 THEN t1 ELSE DefaultAreaFraction]
DefaultThresholds == [i \in 0..4 |-> DefaultAreaFraction]

StaleLine == [header |-> FALSE, fieldnames |-> <<>>, values |-> [i \in 1..8 |-> Blank]]

\* The program state before the configuration loop.
Start ==
    /\ pc = "config"
    /\ error = ""
    /\ allChannels = <<>>
    /\ allOutputNames = <<>>
    /\ inde = 1
    /\ fileIdx = 1
    /\ channels = <<>>
    /\ outputName = ""
    /\ pixel_length = 0
    /\ areas = None
    /\ areaFractionsArray = [x \in 0..4 |-> None]
    /\ z = 1
    /\ areaCounter = 0
    /\ summary = [k \in {} |-> 0]
    /\ fieldnames = <<>>

\* Batches: several subfolders of several images, each image either
\* degenerate or plain; out1.csv is left in the output directory by an
\* earlier run, out2.csv does not exist yet.
InitBatch ==
    /\ \E n \in 1..MaxDirs :
        /\ directories \in [1..n -> {[xml |-> None, files |-> f] :
                                     f \in SeqsUpTo({Degenerate, PlainImage}, 0, MaxFiles)}]
        /\ dialog \in [1..n -> {Answer(NamingWithout({}), o, c) :
                                o \in OutputNames, c \in BOOLEAN}]
    /\ areaFractionThreshold = DefaultThresholds
    /\ csv = [o \in OutputNames |-> IF o = "out1" THEN <<StaleLine>> ELSE <<>>]
    /\ Start

\* One image, any metadata, any particle sizes.
InitSize ==
    /\ directories \in {<<[xml |-> m, files |-> <<img>>]>> :
                        m \in MetadataChoices, img \in SizedImages}
    /\ dialog \in {<<Answer(NamingWithout(e), "out1", FALSE)>> :
                        e \in {{}, {2, 3}, {0, 1, 2, 3}}}
    /\ areaFractionThreshold = DefaultThresholds
    /\ csv = [o \in OutputNames |-> <<>>]
    /\ Start

\* One image, any combination of positive markers, any naming of channels.
InitColoc ==
    /\ directories \in {<<[xml |-> None, files |-> <<img>>]>> : img \in ColocImages}
    /\ \/ /\ dialog \in {<<Answer(NamingWithout(e), "out1", FALSE)>> :
                            e \in {{}, {3}, {2}, {1}, {0}, {2, 3}}}
          /\ areaFractionThreshold = DefaultThresholds
       \/ /\ dialog = <<Answer(NamingWithout({}), "out1", FALSE)>>
          /\ areaFractionThreshold \in {Thresholds(2, 2), Thresholds(1, 3), Thresholds(3, 1)}
    /\ csv = [o \in OutputNames |-> <<>>]
    /\ Start

Init == InitBatch \/ InitSize \/ InitColoc

\* ---------------------------------------------------------------- actions
Crash(e) ==
    /\ pc' = "crashed"
    /\ error' = e

\* Lines 489-492: one pass of the configuration loop.  Unpacking the None
\* that getChannels returns on cancel raises TypeError.
GetChannelsStep ==
    /\ pc = "config"
    /\ LET k == Len(allChannels) + 1
           r == getChannels(dialog[k])
       IN  IF IsNone(r)
           THEN /\ Crash("TypeError: not iterable")
                /\ UNCHANGED <<allChannels, allOutputNames>>
           ELSE /\ allChannels' = Append(allChannels, Val(r).channels)
                /\ allOutputNames' = Append(allOutputNames, Val(r).outputName)
                /\ pc' = IF k = Len(directories) THEN "subfolder" ELSE "config"
                /\ error' = error
    /\ UNCHANGED <<inputs, locals, inde, fileIdx, channels, outputName, csv>>

\* The batch starts without emptying its CSV.
StartBatch_NoTruncate ==
    /\ pc = "subfolder"
    /\ inde <= Len(directories)
    /\ channels' = allChannels[inde]
    /\ outputName' = allOutputNames[inde]
    /\ fileIdx' = 1
    /\ pc' = "file"
    /\ UNCHANGED <<inputs, locals, error, allChannels, allOutputNames, inde, csv>>

\* Lines 499-523: the head of the batch loop; open(..., 'w') empties the CSV.
StartBatch ==
    /\ pc = "subfolder"
    /\ inde <= Len(directories)
    /\ channels' = allChannels[inde]
    /\ outputName' = allOutputNames[inde]
    /\ csv' = [csv EXCEPT ![allOutputNames[inde]] = <<>>]
    /\ fileIdx' = 1
    /\ pc' = "file"
    /\ UNCHANGED <<inputs, locals, error, allChannels, allOutputNames, inde>>

\* Lines 107-376: process() up to the aggregation loop.
ProcessBegin ==
    /\ pc = "file"
    /\ fileIdx <= Len(directories[inde].files)
    /\ LET img == directories[inde].files[fileIdx]
           cal == PixelLength(directories[inde].xml)
       IN  IF cal.err # ""
           THEN /\ Crash(cal.err)
                /\ UNCHANGED locals
           ELSE IF channels = <<>>
           THEN /\ Crash("UnboundLocalError: x")
                /\ pixel_length' = cal.val
                /\ UNCHANGED <<areas, areaFractionsArray, z, areaCounter, summary, fieldnames>>
           ELSE IF IsNone(img.areas)
           THEN /\ Crash("TypeError: not iterable")
                /\ pixel_length' = cal.val
                /\ UNCHANGED <<areas, areaFractionsArray, z, areaCounter, summary, fieldnames>>
           ELSE /\ pixel_length' = cal.val
                /\ areas' = Val(img.areas)
                /\ areaFractionsArray' =
                       [x \in 0..4 |->
                           IF \E i \in 1..Len(channels) : channels[i][2] = x
                           THEN Some(img.fractions[x]) ELSE None]
                /\ summary' = InitialSummary(channels, inde, fileIdx)
                /\ fieldnames' = Fieldnames(channels)
                /\ areaCounter' = 0
                /\ z' = 1
                /\ pc' = "loop"
                /\ error' = error
    /\ UNCHANGED <<inputs, allChannels, allOutputNames, inde, fileIdx, channels,
                   outputName, csv>>

\* Lines 377-416: one candidate of the aggregation loop.
AggregateCandidate ==
    /\ pc = "loop"
    /\ z <= Len(areas)
    /\ LET r == AggregateOne(summary, areaCounter, areas[z], channels,
                             areaFractionsArray, z, areaFractionThreshold)
       IN  IF r.err # ""
           THEN /\ Crash(r.err)
                /\ UNCHANGED <<summary, areaCounter, z>>
           ELSE /\ summary' = r.val.summary
                /\ areaCounter' = r.val.areaCounter
                /\ z' = z + 1
                /\ UNCHANGED <<pc, error>>
    /\ UNCHANGED <<inputs, allChannels, allOutputNames, inde, fileIdx, channels,
                   outputName, csv, pixel_length, areas, areaFractionsArray, fieldnames>>

\* Lines 418-432: the size average and the row appended to the CSV; the
\* file loop moves to the next image.
ProcessEnd ==
    /\ pc = "loop"
    /\ z > Len(areas)
    /\ summary' = SizeAverage(summary, areaCounter)
    /\ csv' = [csv EXCEPT ![outputName] = AppendRow(@, summary', fieldnames)]
    /\ fileIdx' = fileIdx + 1
    /\ pc' = "file"
    /\ UNCHANGED <<inputs, error, allChannels, allOutputNames, inde, channels,
                   outputName, pixel_length, areas, areaFractionsArray, z,
                   areaCounter, fieldnames>>

\* Lines 529-531: the subfolder has no image left.
CompleteSubfolder ==
    /\ pc = "file"
    /\ fileIdx > Len(directories[inde].files)
    /\ inde' = inde + 1
    /\ pc' = "subfolder"
    /\ UNCHANGED <<inputs, locals, error, allChannels, allOutputNames, fileIdx,
                   channels, outputName, csv>>

\* Lines 533-540: the batch loop is over.
Finish ==
    /\ pc = "subfolder"
    /\ inde > Len(directories)
    /\ pc' = "done"
    /\ UNCHANGED <<inputs, locals, error, allChannels, allOutputNames, inde,
                   fileIdx, channels, outputName, csv>>

Next ==
    \/ GetChannelsStep
    \/ StartBatch
    \/ ProcessBegin
    \/ AggregateCandidate
    \/ ProcessEnd
    \/ CompleteSubfolder
    \/ Finish

Spec == Init /\ [][Next]_vars

\* ================================================================ claims
\* The summary, areas and areaFractionsArray in hand belong to one image:
\* the aggregation loop is at candidate z, or the image's row was written.
InProcess == pc = "loop" \/ (pc = "file" /\ fileIdx > 1)
Emitted == pc = "file" /\ fileIdx > 1

\* The candidates the loop has passed.
Passed == 1..(z - 1)
ValidArea(a) == a >= tooSmallThreshold /\ a <= tooBigThreshold
Fraction(x, j) == areaFractionsArray[x][1][j]

\* C1 (as stated): for every configured marker m, the positive counter of m
\* equals the number of candidates of ALL size classes whose area fraction
\* for m meets the threshold of m.
C1_PositiveOverAllSizes ==
    InProcess =>
        \A i \in 1..Len(channels) :
            summary[KeyPositive(channels[i][1])] =
                Cardinality({j \in Passed :
                    Fraction(channels[i][2], j) >= areaFractionThreshold[channels[i][2]]})

\* C1 (amended): for every configured marker m, the positive counter of m
\* equals the number of VALID candidates (neither too big nor too small)
\* whose area fraction for m exceeds the threshold the loop compares with,
\* areaFractionThreshold[0]; a too-big or too-small candidate never
\* increments a positive counter.
C1_PositiveOverValid ==
    InProcess =>
        \A i \in 1..Len(channels) :
            summary[KeyPositive(channels[i][1])] =
                Cardinality({j \in Passed :
                    /\ ValidArea(areas[j])
                    /\ Fraction(channels[i][2], j) > areaFractionThreshold[0]})

\* A too-big candidate and a valid one, both above the threshold for ch01,
\* have been aggregated and ch01's positive counter is 1.
C1_Witness ==
    /\ Emitted
    /\ Len(areas) = 2
    /\ \E i \in 1..Len(channels) :
        /\ channels[i][2] = 1
        /\ areas[1] > tooBigThreshold
        /\ ValidArea(areas[2])
        /\ Fraction(1, 1) > areaFractionThreshold[0]
        /\ Fraction(1, 2) > areaFractionThreshold[0]
        /\ summary[KeyPositive(channels[i][1])] = 1

\* C2 (as stated): when the loop evaluates marker m for candidate z, m's
\* positive counter goes up by one exactly when areaFraction(m, z) >= the
\* threshold of that same marker m.
C2_OwnThresholdInclusive ==
    [][(pc = "loop" /\ z' = z + 1 /\ ValidArea(areas[z])) =>
        \A i \in 1..Len(channels) :
            summary'[KeyPositive(channels[i][1])] - summary[KeyPositive(channels[i][1])] =
                IF Fraction(channels[i][2], z) >= areaFractionThreshold[channels[i][2]]
                THEN 1 ELSE 0]_vars

\* C3: each candidate is counted in exactly one size class: too-big when
\* area > tooBigThreshold, too-small when area < tooSmallThreshold, valid
\* otherwise; the three counters sum to the number of candidates; areas
\* 20, 200, 700 give one of each.
C3_SizeClasses ==
    InProcess =>
        /\ summary[<<"too-big">>] = Cardinality({j \in Passed : areas[j] > tooBigThreshold})
        /\ summary[<<"too-small">>] = Cardinality({j \in Passed : areas[j] < tooSmallThreshold})
        /\ summary[<<"#nuclei">>] =
               Cardinality({j \in Passed : ~(areas[j] > tooBigThreshold)
                                           /\ ~(areas[j] < tooSmallThreshold)})
        /\ summary[<<"#nuclei">>] + summary[<<"too-small">>] + summary[<<"too-big">>] = z - 1
        /\ (Emitted /\ areas = <<20, 200, 700>>) =>
               /\ summary[<<"#nuclei">>] = 1
               /\ summary[<<"too-small">>] = 1
               /\ summary[<<"too-big">>] = 1

\* Areas 50, 500 (both equal to a threshold) and 700 have been aggregated:
\* two valid, one too big.
C3_Witness ==
    /\ Emitted
    /\ areas = <<tooSmallThreshold, tooBigThreshold, 700>>
    /\ summary[<<"#nuclei">>] = 2
    /\ summary[<<"too-small">>] = 0
    /\ summary[<<"too-big">>] = 1

\* The comparison of the colocalization step: marker x is positive for
\* candidate j when its area fraction exceeds areaFractionThreshold[x].
Positive(x, j) == Fraction(x, j) > areaFractionThreshold[x]
Delta(new, old, k) == new[k] - old[k]
Indicator(b) == IF b THEN 1 ELSE 0

\* C4: with 4 markers, a candidate reaching the colocalization step
\* increments the triple counter exactly when marker2 and marker3 and
\* marker1 are positive; marker1-marker3 and marker2-marker3 are counted
\* independently of each other (so (T, F, T) increments marker1-marker3 and
\* leaves the triple counter unchanged).
C4_TripleGate ==
    [][(pc = "loop" /\ z' = z + 1 /\ Len(channels) = 4 /\ ValidArea(areas[z])) =>
        LET m1 == channels[2][1]
            m2 == channels[3][1]
            m3 == channels[4][1]
        IN  /\ Delta(summary', summary, KeyTriple(m1, m2, m3)) =
                   Indicator(Positive(2, z) /\ Positive(3, z) /\ Positive(1, z))
            /\ Delta(summary', summary, KeyPair(m1, m3)) =
                   Indicator(Positive(1, z) /\ Positive(3, z))
            /\ Delta(summary', summary, KeyPair(m2, m3)) =
                   Indicator(Positive(2, z) /\ Positive(3, z))]_vars

\* Two valid candidates, (T, F, T) then (T, T, T), have been aggregated:
\* marker1-marker3 is 2, marker2-marker3 is 1, the triple counter is 1.
C4_Witness ==
    /\ InProcess
    /\ Len(channels) = 4
    /\ z = 3
    /\ ValidArea(areas[1]) /\ ValidArea(areas[2])
    /\ Positive(1, 1) /\ ~Positive(2, 1) /\ Positive(3, 1)
    /\ Positive(1, 2) /\ Positive(2, 2) /\ Positive(3, 2)
    /\ summary[KeyPair(channels[2][1], channels[4][1])] = 2
    /\ summary[KeyPair(channels[3][1], channels[4][1])] = 1
    /\ summary[KeyTriple(channels[2][1], channels[3][1], channels[4][1])] = 1

RECURSIVE SumValidAreas(_, _)
SumValidAreas(as, i) ==
    IF i > Len(as) THEN 0
    ELSE (IF ValidArea(as[i]) THEN as[i] ELSE 0) + SumValidAreas(as, i + 1)

Abs(n) == IF n < 0 THEN -n ELSE n

\* C5: after the loop, size-average is the sum of the areas of the valid
\* candidates divided by their number, rounded to 2 decimals (the nearest
\* hundredth), and 0 when no candidate is valid; areas of too-big and
\* too-small candidates never enter the sum.
C5_SizeAverage ==
    Emitted =>
        LET n == Cardinality({j \in 1..Len(areas) : ValidArea(areas[j])})
            total == SumValidAreas(areas, 1)
        IN  IF n = 0 THEN summary[<<"size-average">>] = 0
            ELSE 2 * Abs(summary[<<"size-average">>] * n - 100 * total) <= n

\* Three valid candidates whose mean, 200.67, is not a whole number of
\* hundredths before rounding.
C5_Witness ==
    /\ Emitted
    /\ areas = <<200, 201, 201>>
    /\ summary[<<"size-average">>] = 20067

\* ------------------------------------------------------- driver claims
Terminated == pc \in {"done", "crashed"}
Batches == 1..Len(directories)

\* No other subfolder was given the output name of subfolder b.
OwnName(b) == \A c \in Batches \ {b} : dialog[c].outputName # dialog[b].outputName

\* The (Directory, Image) cells of the lines of a file that are not headers.
RowIds(file) ==
    LET rows == SelectSeq(file, LAMBDA l : ~l.header)
    IN  [i \in 1..Len(rows) |-> <<rows[i].values[2], rows[i].values[3]>>]

AllFourNamed == \A b \in Batches : \A i \in 1..4 : dialog[b].names[i] # ""
NobodyCancels == \A b \in Batches : ~dialog[b].canceled

\* With all four channels named, processing image i of subfolder b raises
\* nothing: the metadata is readable and the segmentation found particles.
Completes(b, i) ==
    /\ PixelLength(directories[b].xml).err = ""
    /\ ~IsNone(directories[b].files[i].areas)

RECURSIVE CompletingFrom(_, _)
CompletingFrom(b, i) ==
    IF i > Len(directories[b].files) THEN <<>>
    ELSE (IF Completes(b, i) THEN << <<b, i>> >> ELSE <<>>) \o CompletingFrom(b, i + 1)

\* C6 (as stated): an image whose processing fails is skipped and the driver
\* goes on: when the script has ended, the output file of every batch holds
\* exactly the rows of the images of that batch that complete.
C6_ImageFailureIsLocal ==
    (Terminated /\ NobodyCancels /\ AllFourNamed) =>
        \A b \in Batches :
            OwnName(b) => RowIds(csv[dialog[b].outputName]) = CompletingFrom(b, 1)

\* C7 (as stated): with at least 3 channels named, processing raises nothing
\* and the colocalization counters count the valid candidates positive for
\* the configured markers their labels name (2nd and 3rd; with 4 channels
\* also 2nd and 4th, 3rd and 4th, and all three).
BothPositive(c, d) ==
    Cardinality({j \in 1..Len(areas) :
        /\ ValidArea(areas[j])
        /\ Positive(channels[c][2], j)
        /\ Positive(channels[d][2], j)})

C7_ColocalizationByConfiguredOrder ==
    Len(channels) >= 3 =>
        /\ ~(pc = "crashed" /\ error = "TypeError: unsubscriptable")
        /\ Emitted =>
            /\ summary[KeyPair(channels[2][1], channels[3][1])] = BothPositive(2, 3)
            /\ Len(channels) = 4 =>
                /\ summary[KeyPair(channels[2][1], channels[4][1])] = BothPositive(2, 4)
                /\ summary[KeyPair(channels[3][1], channels[4][1])] = BothPositive(3, 4)
                /\ summary[KeyTriple(channels[2][1], channels[3][1], channels[4][1])] =
                       Cardinality({j \in 1..Len(areas) :
                           /\ ValidArea(areas[j])
                           /\ \A c \in 2..4 : Positive(channels[c][2], j)})

\* Batch b has started: its CSV was emptied by this run.
Started(b) ==
    \/ b < inde
    \/ /\ b = inde
       /\ \/ pc \in {"file", "loop"}
          \/ pc = "crashed" /\ Len(allOutputNames) = Len(directories)

\* The images of batch b whose process() call has returned.
Completed(b) == IF b < inde THEN Len(directories[b].files) ELSE fileIdx - 1

\* The file is the header of batch b followed by the rows of its first k images.
HeaderAndRows(file, b, k) ==
    /\ Len(file) = k + 1
    /\ file[1] = HeaderLine(Fieldnames(allChannels[b]))
    /\ \A i \in 1..k :
        /\ ~file[i + 1].header
        /\ file[i + 1].values[2] = b
        /\ file[i + 1].values[3] = i

\* C8 (as stated): at every point of a batch whose output name is its own,
\* from the moment its CSV is emptied, the file holds the header followed
\* by the rows of exactly the images completed so far.
C8_HeaderThenRows ==
    \A b \in Batches :
        (Started(b) /\ OwnName(b)) =>
            HeaderAndRows(csv[allOutputNames[b]], b, Completed(b))

\* C8 (amended): at every point of a batch whose output name is its own,
\* from the moment its CSV is emptied, the file is empty while no image of
\* the batch has completed (the header is written by the first process()
\* call that appends a row, not at the start of the batch) and holds the
\* header followed by the rows of exactly the images completed so far, in
\* processing order, afterwards; this also holds when the script is
\* interrupted after k images.
C8_EmptyThenHeaderAndRows ==
    \A b \in Batches :
        (Started(b) /\ OwnName(b)) =>
            IF Completed(b) = 0
            THEN csv[allOutputNames[b]] = <<>>
            ELSE HeaderAndRows(csv[allOutputNames[b]], b, Completed(b))

\* The script was interrupted in the second image of a batch that writes
\* out1.csv, which an earlier run had left behind: the file holds the
\* header and the row of the first image.
C8_Witness ==
    /\ pc = "crashed"
    /\ Len(allOutputNames) = Len(directories)
    /\ OwnName(inde)
    /\ outputName = "out1"
    /\ fileIdx = 2
    /\ Len(csv[outputName]) = 2
    /\ csv[outputName][1].header

\* C9 (as stated): canceling the dialog of one subfolder aborts only that
\* batch: when the script has ended, the configuration of every other
\* subfolder was collected and its images have their rows.
C9_CancelIsLocal ==
    (Terminated /\ AllFourNamed
       /\ \A b \in Batches : \A i \in 1..Len(directories[b].files) : Completes(b, i)) =>
        \A b \in Batches :
            ~dialog[b].canceled =>
                /\ b <= Len(allChannels)
                /\ OwnName(b) => RowIds(csv[dialog[b].outputName]) = CompletingFrom(b, 1)

\* The xml file parses and every DimensionDescription carries a numeric
\* NumberOfElements (the last one not 0), a Unit and a numeric Length.
WellFormed(xml) ==
    /\ ~IsNone(xml)
    /\ Val(xml).parses
    /\ Val(xml).dims # <<>>
    /\ \A i \in 1..Len(Val(xml).dims) :
        LET d == Val(xml).dims[i]
        IN  /\ d.NumberOfElements.present /\ d.NumberOfElements.numeric
            /\ d.Unit.present
            /\ d.Length.present /\ d.Length.numeric
    /\ Val(xml).dims[Len(Val(xml).dims)].NumberOfElements.value # 0

CalibrationErrors ==
    {"ParseError", "KeyError", "ValueError", "UnboundLocalError: length", "ZeroDivisionError"}

\* C10 (as stated): the calibration step never fails; the pixel size is the
\* default when the metadata is absent or malformed, and length (x 1e6 when
\* the unit is meters) divided by the pixel count when it is well-formed.
C10_CalibrationNeverFails ==
    /\ pc = "crashed" => error \notin CalibrationErrors
    /\ pc = "loop" =>
        LET xml == directories[inde].xml IN
        pixel_length =
            IF WellFormed(xml)
            THEN LET d == Val(xml).dims[Len(Val(xml).dims)]
                 IN  (IF d.Unit.text = "m" THEN d.Length.value * 1000000
                      ELSE d.Length.value) \div d.NumberOfElements.value
            ELSE DefaultPixelLength

\* -------------------------------------------------- containment of counters
PositiveCount(c) == summary[KeyPositive(channels[c][1])]
PairCount(c, d) == summary[KeyPair(channels[c][1], channels[d][1])]

\* C11 (as stated): whatever the per-marker thresholds, a colocalization
\* counter never exceeds the counter of any of its sub-combinations: each
\* pairwise counter is at most the positive counter of each of its two
\* markers, the triple counter is at most each of the three pairwise
\* counters, and all-negative is at most #nuclei.
C11_Containment ==
    InProcess =>
        /\ summary[<<"all-negative">>] <= summary[<<"#nuclei">>]
        /\ Len(channels) >= 3 =>
            /\ PairCount(2, 3) <= PositiveCount(2)
            /\ PairCount(2, 3) <= PositiveCount(3)
        /\ Len(channels) = 4 =>
            /\ PairCount(2, 4) <= PositiveCount(2)
            /\ PairCount(2, 4) <= PositiveCount(4)
            /\ PairCount(3, 4) <= PositiveCount(3)
            /\ PairCount(3, 4) <= PositiveCount(4)
            /\ \A p \in {<<2, 3>>, <<2, 4>>, <<3, 4>>} :
                summary[KeyTriple(channels[2][1], channels[3][1], channels[4][1])]
                    <= PairCount(p[1], p[2])
====
